---- MODULE Spec2Model ----
(***************************************************************************)
(* The economy ledger drafts and the dice wager flow of the chat plugins.  *)
(*                                                                         *)
(*   "bank" draft : src/unnamed/part_001  ({balance, bank} records, file)  *)
(*   "flat" draft : src/unnamed/part_002  (plain number balances, file)    *)
(*   "mem"  draft : src/server/chat-plugins/server-economy.ts (economyDB)  *)
(*   dice         : src/unnamed/part_003                                   *)
(*                                                                         *)
(* Amounts are JavaScript numbers.  The model counts them in units of      *)
(* 1/Scale coin, so that the fractional amounts Number() accepts exist;    *)
(* with Scale = 2 every modelled value is a dyadic rational, on which      *)
(* double arithmetic is exact.  A typed amount is a record                 *)
(* [nan, units]: nan says the text is not a number.                        *)
(***************************************************************************)
EXTENDS Integers, FiniteSets, Sequences, TLC

\* ---------------------------------------------------------------- bounds
Scale == 2
MaxSupply == 2
MaxDebt == 1
MaxTyped == 3
MaxWallet == 4
MaxGames == 2
MaxBank == 100
MaxRank == 3

Users == {"a", "b", "c"}

\* In the bank draft "c" only holds an account; "a" and "b" type commands.
BankUsers == {"a", "b"}

Num(k) == [nan |-> FALSE, units |-> k]
NaN == [nan |-> TRUE, units |-> 0]

\* The amounts a user can type: not a number, a negative, zero, fractions.
Typed == {NaN} \cup {Num(k) : k \in (0 - 1) .. MaxTyped}

\* ------------------------------------------------------- number parsing
\* Number(text): the value as typed.
Number(t) == t

\* parseInt(text): the integer part (whole coins), truncated toward zero.
parseInt(t) ==
    IF t.nan THEN NaN
    ELSE IF t.units >= 0 THEN Num(Scale * (t.units \div Scale))
    ELSE Num(0 - Scale * ((0 - t.units) \div Scale))

isNaN(x) == x.nan

\* Math.ceil and Math.floor of the rational n/d, d > 0.
Ceil(n, d) == 0 - ((0 - n) \div d)
Floor(n, d) == n \div d

Max0(x) == IF x > 0 THEN x ELSE 0

\* ---------------------------------------------------------------- state
VARIABLES
    variant,        \* which ledger draft is the loaded plugin
    economyFile,    \* ECONOMY_FILE: [ok, data]; ok = FALSE: it does not parse
    configFile,     \* ECONOMY_CONFIG_FILE: [kind, undef, pct]
    economyDB,      \* server-economy.ts: the in-memory balances
    last,           \* the last command or callback: its inputs, the ledger
                    \* it loaded, and its reply
    money,          \* the Economy store the dice plugin reads and writes
    activeDiceGames,\* part_003: room id -> the room's game, if any
    timers,         \* the pending setTimeout callbacks, with their closures
    history,        \* per game created, in order: its room, host, bet, the
                    \* balances before its start, the outcomes applied to it
    event           \* the last dice command or callback: its inputs, the
                    \* state it found, and its reply

ledgerVars == <<variant, economyFile, configFile, economyDB, last>>
diceVars == <<money, activeDiceGames, timers, history, event>>
vars == <<ledgerVars, diceVars>>

NoAccount == [has |-> FALSE, balance |-> 0, bank |-> 0]
EmptyLedger == [u \in Users |-> NoAccount]

\* No leaderboard was asked for.
NoBoard == [start |-> 0, end |-> 0, rows |-> <<>>]

RECURSIVE TotalOver(_, _)
TotalOver(e, S) ==
    IF S = {} THEN 0
    ELSE LET u == CHOOSE x \in S : TRUE
         IN e[u].balance + e[u].bank + TotalOver(e, S \ {u})

\* The users who type commands, or are named in them.
Actors == IF variant = "bank" THEN BankUsers ELSE Users

\* The model's cap on what the accounts of these users hold, and on how far
\* below zero a balance is followed.
Bounded(e) ==
    /\ TotalOver(e, Actors) <= MaxSupply
    /\ \A u \in Users : e[u].balance <= MaxSupply /\ e[u].bank <= MaxSupply
    /\ \A u \in Users : e[u].balance >= 0 - MaxDebt

\* What a function of the ledger returns: whether it saved, what it saved,
\* and its return value.
Saved(e, r) == [save |-> TRUE, data |-> e, ret |-> r]
NotSaved(e, r) == [save |-> FALSE, data |-> e, ret |-> r]

\* ------------------------------------------------ persistence (part_001)
\* loadEconomy: the parsed file, or {} when it does not parse.
loadEconomy_unchecked == economyFile.data
loadEconomy == IF economyFile.ok THEN economyFile.data ELSE EmptyLedger

\* FS(ECONOMY_FILE).writeUpdate(...) is not in the sources: the document is
\* rewritten in full before the caller goes on.
writeUpdate_notWritten(data) == UNCHANGED economyFile
writeUpdate(data) == economyFile' = [ok |-> TRUE, data |-> data]

\* saveEconomy: the whole ledger is rewritten.
saveEconomy(data) == writeUpdate(data)

\* What a call leaves in the file.
Persist(r) ==
    IF r.save THEN saveEconomy(r.data) ELSE UNCHANGED economyFile

\* loadEconomyConfig: {} when the file is absent (interestRate undefined),
\* the default 0.01 only when it does not parse.  A rate is [undef, pct]:
\* pct hundredths.
loadEconomyConfig ==
    IF configFile.kind = "absent" THEN [undef |-> TRUE, pct |-> 0]
    ELSE IF configFile.kind = "malformed" THEN [undef |-> FALSE, pct |-> 1]
    ELSE [undef |-> configFile.undef, pct |-> configFile.pct]

\* --------------------------------------------- the bank draft (part_001)
Bank_getBalance(e, userID) == e[userID].balance

Bank_create(e, userID) ==
    IF e[userID].has THEN e ELSE [e EXCEPT ![userID].has = TRUE]

Bank_giveMoney(e, userID, amount) ==
    Saved([Bank_create(e, userID) EXCEPT ![userID].balance = @ + amount],
          "void")

Bank_takeMoney_unclamped(e, userID, amount) ==
    IF ~e[userID].has THEN NotSaved(e, "void")
    ELSE Saved([e EXCEPT ![userID].balance = @ - amount], "void")

Bank_takeMoney(e, userID, amount) ==
    IF ~e[userID].has THEN NotSaved(e, "void")
    ELSE Saved([e EXCEPT ![userID].balance = Max0(@ - amount)], "void")

Bank_transferMoney(e, fromID, toID, amount) ==
    IF ~e[fromID].has \/ e[fromID].balance < amount
    THEN NotSaved(e, "You don't have enough PokeCoins.")
    ELSE IF amount <= 0 THEN NotSaved(e, "Invalid amount.")
    ELSE LET e1 == [e EXCEPT ![fromID].balance = @ - amount]
             e2 == Bank_create(e1, toID)
         IN Saved([e2 EXCEPT ![toID].balance = @ + amount], "You sent")

\* depositBank(userID, amount); amount can be NaN here: /bank does not
\* check it, both comparisons with NaN are false, the two fields become NaN,
\* JSON.stringify writes them as null, and null counts as 0 from then on.
Bank_depositBank(e, userID, amt) ==
    LET e1 == Bank_create(e, userID)
    IN IF amt.nan
       THEN Saved([e1 EXCEPT ![userID].balance = 0, ![userID].bank = 0],
                  "You deposited")
       ELSE IF amt.units <= 0 \/ e1[userID].balance < amt.units
       THEN NotSaved(e1, "Invalid deposit amount.")
       ELSE Saved([e1 EXCEPT ![userID].balance = @ - amt.units,
                             ![userID].bank = @ + amt.units],
                  "You deposited")

\* fee = Math.ceil(amount * 0.02), in coins; amount is units/Scale coins.
Fee_roundedDown(units) == Scale * Floor(units * 2, Scale * 100)
Fee(units) == Scale * Ceil(units * 2, Scale * 100)

Bank_withdrawBank(e, userID, amt) ==
    LET e1 == Bank_create(e, userID)
    IN IF amt.nan
       THEN Saved([e1 EXCEPT ![userID].balance = 0, ![userID].bank = 0],
                  "You withdrew")
       ELSE IF amt.units <= 0 \/ e1[userID].bank < amt.units
       THEN NotSaved(e1, "Invalid withdrawal amount.")
       ELSE LET fee == Fee(amt.units)
                finalAmount == amt.units - fee
            IN Saved([e1 EXCEPT ![userID].bank = @ - amt.units,
                                ![userID].balance = @ + finalAmount],
                     "You withdrew")

\* Math.floor(bank * interestRate), in units.
Interest_roundedUp(bank, pct) == Scale * Ceil(bank * pct, Scale * 100)
Interest(bank, pct) == Scale * Floor(bank * pct, Scale * 100)

\* applyInterest; an undefined rate makes every positive bank NaN, which is
\* saved as null (0 from then on).
Bank_applyInterest(e, rate) ==
    Saved([u \in Users |->
              IF e[u].has /\ e[u].bank > 0
              THEN [e[u] EXCEPT !.bank =
                        IF rate.undef THEN 0 ELSE @ + Interest(@, rate.pct)]
              ELSE e[u]],
          "void")

\* balance + bank of an entry.
Total(e, u) == e[u].balance + e[u].bank

\* Object.entries(economy) lists the accounts in the order they were first
\* written: entries is one of these orders.
Entries(e) ==
    LET S == {u \in Users : e[u].has}
    IN {q \in [1 .. Cardinality(S) -> S] :
           \A i, j \in 1 .. Cardinality(S) : i # j => q[i] # q[j]}

\* The comparator (b.balance + b.bank) - (a.balance + a.bank) leaves x
\* before u.
Precedes_ascending(e, x, u) == Total(e, x) <= Total(e, u)
Precedes(e, x, u) == Total(e, x) >= Total(e, u)

\* Array.prototype.sort is stable: u goes behind every entry the comparator
\* leaves before it.
InsertSorted(e, sorted, u) ==
    LET k == Cardinality({i \in 1 .. Len(sorted) : Precedes(e, sorted[i], u)})
    IN SubSeq(sorted, 1, k) \o <<u>> \o SubSeq(sorted, k + 1, Len(sorted))

RECURSIVE sort(_, _)
sort(e, q) ==
    IF Len(q) = 0 THEN <<>>
    ELSE InsertSorted(e, sort(e, SubSeq(q, 1, Len(q) - 1)), q[Len(q)])

\* Array.prototype.slice(begin, end) with 0 <= begin: the elements at the
\* 0-based indexes begin .. end - 1.
slice(q, begin, end) ==
    LET to == IF end < Len(q) THEN end ELSE Len(q)
    IN IF begin + 1 > to THEN <<>> ELSE SubSeq(q, begin + 1, to)

\* getRichestUsers(start, end); rows are the lines of the leaderboard.
getRichestUsers(e, entries, start, end) ==
    LET sortedUsers == slice(sort(e, entries), start - 1, end)
    IN [board |->
           [start |-> start, end |-> end,
            rows |-> [index \in 1 .. Len(sortedUsers) |->
                        [rank |-> start + (index - 1),
                         user |-> sortedUsers[index],
                         total |-> Total(e, sortedUsers[index])]]],
        ret |-> IF Len(sortedUsers) = 0
                THEN "No users found in this range."
                ELSE "Richest Users Leaderboard"]

\* --------------------------------------------- the flat draft (part_002)
\* !economy[userID]: the entry is absent, or is 0.
Falsy(e, userID) == ~e[userID].has \/ e[userID].balance = 0

Flat_getBalance(e, userID) == e[userID].balance

Flat_create(e, userID) ==
    IF Falsy(e, userID)
    THEN [e EXCEPT ![userID] = [has |-> TRUE, balance |-> 0, bank |-> 0]]
    ELSE e

Flat_giveMoney_overwrites(e, userID, amount) ==
    IF isNaN(amount) \/ amount.units <= 0 THEN NotSaved(e, FALSE)
    ELSE Saved([Flat_create(e, userID) EXCEPT
                   ![userID].balance = amount.units], TRUE)

Flat_giveMoney(e, userID, amount) ==
    IF isNaN(amount) \/ amount.units <= 0 THEN NotSaved(e, FALSE)
    ELSE Saved([Flat_create(e, userID) EXCEPT
                   ![userID].balance = @ + amount.units], TRUE)

\* part_002 getRichestUsers(): every entry, by descending balance.
Flat_getRichestUsers(e, entries) == sort(e, entries)

Flat_takeMoney(e, userID, amount) ==
    IF isNaN(amount) \/ amount.units <= 0 THEN NotSaved(e, FALSE)
    ELSE IF Falsy(e, userID) \/ e[userID].balance < amount.units
    THEN NotSaved(e, FALSE)
    ELSE Saved([e EXCEPT ![userID].balance = @ - amount.units], TRUE)

Flat_transferMoney(e, senderID, receiverID, amount) ==
    IF senderID = receiverID \/ isNaN(amount) \/ amount.units <= 0
    THEN NotSaved(e, FALSE)
    ELSE IF Falsy(e, senderID) \/ e[senderID].balance < amount.units
    THEN NotSaved(e, FALSE)
    ELSE LET e1 == Flat_create(e, receiverID)
         IN Saved([e1 EXCEPT ![senderID].balance = @ - amount.units,
                             ![receiverID].balance = @ + amount.units],
                  TRUE)

\* ------------------------------------ the mem draft (server-economy.ts)
Mem_getBalance(db, userID) == db[userID].balance

Mem_create(db, userID) ==
    IF Falsy(db, userID)
    THEN [db EXCEPT ![userID] = [has |-> TRUE, balance |-> 0, bank |-> 0]]
    ELSE db

Mem_giveMoney(db, userID, amount) ==
    Saved([Mem_create(db, userID) EXCEPT ![userID].balance = @ + amount],
          "void")

Mem_takeMoney(db, userID, amount) ==
    Saved([Mem_create(db, userID) EXCEPT
              ![userID].balance = Max0(@ - amount)], "void")

\* ------------------------------------------------------------- commands
\* What is typed after a staff command: by a user without the rank, by
\* staff with no target, by staff with a target and an amount.
StaffInputs ==
    {<<FALSE, "", NaN>>, <<TRUE, "", NaN>>}
        \cup {<<TRUE, u, t>> : u \in Actors, t \in Typed}

\* What is typed after /transfermoney: no target, or a target and an amount.
TransferInputs == {<<"", NaN>>} \cup (Actors \X Typed)

\* What is typed after /bank: a subcommand other than deposit and withdraw
\* (the amount is not used), or deposit or withdraw and an amount.
BankInputs ==
    {<<"balance", NaN>>, <<"", NaN>>} \cup ({"deposit", "withdraw"} \X Typed)

\* part_001 commands.givemoney
Bank_givemoney(e, auth, targetUser, amountStr) ==
    LET amount == Number(amountStr)
    IN IF ~auth THEN NotSaved(e, "You don't have permission.")
       ELSE IF targetUser = "" \/ isNaN(amount) \/ amount.units <= 0
       THEN NotSaved(e, "Usage: /givemoney")
       ELSE [Bank_giveMoney(e, targetUser, amount.units) EXCEPT
                !.ret = "Gave"]

\* part_001 commands.takemoney
Bank_takemoney(e, auth, targetUser, amountStr) ==
    LET amount == Number(amountStr)
    IN IF ~auth THEN NotSaved(e, "You don't have permission.")
       ELSE IF targetUser = "" \/ isNaN(amount) \/ amount.units <= 0
       THEN NotSaved(e, "Usage: /takemoney")
       ELSE [Bank_takeMoney(e, targetUser, amount.units) EXCEPT
                !.ret = "Took"]

\* part_001 commands.transfermoney
Bank_transfermoney(e, userid, targetUser, amountStr) ==
    LET amount == Number(amountStr)
    IN IF targetUser = "" \/ isNaN(amount) \/ amount.units <= 0
       THEN NotSaved(e, "Usage: /transfermoney")
       ELSE Bank_transferMoney(e, userid, targetUser, amount.units)

\* part_001 commands.bank
Bank_bank(e, userid, cmd, amountStr) ==
    LET amount == Number(amountStr)
    IN IF cmd = "balance" THEN NotSaved(e, "You have")
       ELSE IF cmd = "deposit" THEN Bank_depositBank(e, userid, amount)
       ELSE IF cmd = "withdraw" THEN Bank_withdrawBank(e, userid, amount)
       ELSE NotSaved(e, "/bank deposit | withdraw | balance")

\* part_002 commands.givemoney
Flat_givemoney(e, auth, targetUser, amountStr) ==
    LET amount == parseInt(amountStr)
    IN IF ~auth THEN NotSaved(e, "Access denied.")
       ELSE IF targetUser = "" \/ isNaN(amount)
       THEN NotSaved(e, "Usage: /givemoney")
       ELSE LET r == Flat_giveMoney(e, targetUser, amount)
            IN [r EXCEPT !.ret = IF r.ret THEN "has given"
                                 ELSE "Invalid transaction."]

\* part_002 commands.takemoney
Flat_takemoney(e, auth, targetUser, amountStr) ==
    LET amount == parseInt(amountStr)
    IN IF ~auth THEN NotSaved(e, "Access denied.")
       ELSE IF targetUser = "" \/ isNaN(amount)
       THEN NotSaved(e, "Usage: /takemoney")
       ELSE LET r == Flat_takeMoney(e, targetUser, amount)
            IN [r EXCEPT !.ret = IF r.ret THEN "has taken"
                                 ELSE "Invalid transaction."]

\* part_002 commands.transfermoney
Flat_transfermoney(e, userid, receiver, amountStr) ==
    LET amount == parseInt(amountStr)
    IN IF receiver = "" \/ isNaN(amount)
       THEN NotSaved(e, "Usage: /transfermoney")
       ELSE LET r == Flat_transferMoney(e, userid, receiver, amount)
            IN [r EXCEPT !.ret = IF r.ret THEN "has transferred"
                                 ELSE "Transaction failed."]

\* server-economy.ts commands.givemoney
Mem_givemoney(db, auth, targetUser, amountStr) ==
    LET numAmount == parseInt(amountStr)
    IN IF ~auth THEN NotSaved(db, "Permission denied.")
       ELSE IF targetUser = "" THEN NotSaved(db, "Usage: /givemoney")
       ELSE IF isNaN(numAmount) \/ numAmount.units <= 0
       THEN NotSaved(db, "Invalid amount.")
       ELSE [Mem_giveMoney(db, targetUser, numAmount.units) EXCEPT
                !.ret = "Gave"]

\* server-economy.ts commands.takemoney
Mem_takemoney(db, auth, targetUser, amountStr) ==
    LET numAmount == parseInt(amountStr)
    IN IF ~auth THEN NotSaved(db, "Permission denied.")
       ELSE IF targetUser = "" THEN NotSaved(db, "Usage: /takemoney")
       ELSE IF isNaN(numAmount) \/ numAmount.units <= 0
       THEN NotSaved(db, "Invalid amount.")
       ELSE [Mem_takeMoney(db, targetUser, numAmount.units) EXCEPT
                !.ret = "Took"]

\* ------------------------------------------------------ ledger actions
\* The ledger the loaded draft reads.
Ledger == IF variant = "mem" THEN economyDB ELSE loadEconomy

\* The replies that report a completed transfer.
Sent == {"You sent", "has transferred"}

\* The command now run sends back what the last command transferred.
Returns(op, user, target, amountStr) ==
    /\ op = "transfermoney" /\ last.op = "transfermoney"
    /\ last.reply \in Sent
    /\ user = last.target /\ target = last.user /\ amountStr = last.amount

\* last: what was typed, the ledger the command loaded (pre), whether the
\* document it read parsed, its reply,
\* and, for a transfer back, the ledger before the transfer it returns.
Recorded(op, auth, user, target, amountStr, r) ==
    [op |-> op, auth |-> auth, user |-> user, target |-> target,
     amount |-> amountStr, pre |-> Ledger, reply |-> r.ret,
     board |-> NoBoard, parsed |-> economyFile.ok,
     back |-> Returns(op, user, target, amountStr),
     before |-> IF Returns(op, user, target, amountStr)
                THEN last.pre ELSE Ledger]

Record(op, auth, user, target, amountStr, r) ==
    last' = Recorded(op, auth, user, target, amountStr, r)

\* A file-backed draft's command ends: what it saved is in the file.
FileDone(r) ==
    /\ Bounded(r.data)
    /\ Persist(r)
    /\ UNCHANGED <<variant, configFile, economyDB, diceVars>>

\* The in-memory draft's command ends.
MemDone(r) ==
    /\ Bounded(r.data)
    /\ economyDB' = IF r.save THEN r.data ELSE economyDB
    /\ UNCHANGED <<variant, economyFile, configFile, diceVars>>

BankGive ==
    /\ variant = "bank"
    /\ \E in \in StaffInputs :
          LET r == Bank_givemoney(loadEconomy, in[1], in[2], in[3])
          IN FileDone(r)
             /\ Record("givemoney", in[1], "", in[2], in[3], r)

BankTake ==
    /\ variant = "bank"
    /\ \E in \in StaffInputs :
          LET r == Bank_takemoney(loadEconomy, in[1], in[2], in[3])
          IN FileDone(r)
             /\ Record("takemoney", in[1], "", in[2], in[3], r)

BankTransfer ==
    /\ variant = "bank"
    /\ \E user \in Actors, in \in TransferInputs :
          LET r == Bank_transfermoney(loadEconomy, user, in[1], in[2])
          IN FileDone(r)
             /\ Record("transfermoney", TRUE, user, in[1], in[2], r)

BankBank ==
    /\ variant = "bank"
    /\ \E user \in Actors, in \in BankInputs :
          LET r == Bank_bank(loadEconomy, user, in[1], in[2])
          IN FileDone(r) /\ Record("bank", TRUE, user, in[1], in[2], r)

\* setInterval(applyInterest, ...): the interest timer fires.
BankInterest ==
    /\ variant = "bank"
    /\ LET r == Bank_applyInterest(loadEconomy, loadEconomyConfig)
       IN FileDone(r) /\ Record("applyInterest", TRUE, "", "", NaN, r)

\* The rates /setinterest is given here, in hundredths; parseFloat of a
\* text that is no number is NaN, saved as null: a rate of 0 from then on.
Rates == {NaN, Num(100)}

\* part_001 commands.setinterest
BankSetInterest ==
    /\ variant = "bank"
    /\ \E auth \in BOOLEAN, rate \in Rates :
          /\ auth \/ rate = NaN
          /\ configFile' =
                IF auth
                THEN [kind |-> "ok", undef |-> FALSE,
                      pct |-> IF rate.nan THEN 0 ELSE rate.units]
                ELSE configFile
          /\ last' = [op |-> "setinterest", auth |-> auth, user |-> "",
                      target |-> "", amount |-> rate, pre |-> Ledger,
                      reply |-> IF auth THEN "Interest rate set"
                                ELSE "You don't have permission.",
                      board |-> NoBoard, parsed |-> economyFile.ok,
                      back |-> FALSE, before |-> Ledger]
    /\ UNCHANGED <<variant, economyFile, economyDB, diceVars>>

FlatGive ==
    /\ variant = "flat"
    /\ \E in \in StaffInputs :
          LET r == Flat_givemoney(loadEconomy, in[1], in[2], in[3])
          IN FileDone(r)
             /\ Record("givemoney", in[1], "", in[2], in[3], r)

FlatTake ==
    /\ variant = "flat"
    /\ \E in \in StaffInputs :
          LET r == Flat_takemoney(loadEconomy, in[1], in[2], in[3])
          IN FileDone(r)
             /\ Record("takemoney", in[1], "", in[2], in[3], r)

FlatTransfer ==
    /\ variant = "flat"
    /\ \E user \in Actors, in \in TransferInputs :
          LET r == Flat_transfermoney(loadEconomy, user, in[1], in[2])
          IN FileDone(r)
             /\ Record("transfermoney", TRUE, user, in[1], in[2], r)

MemGive ==
    /\ variant = "mem"
    /\ \E in \in StaffInputs :
          LET r == Mem_givemoney(economyDB, in[1], in[2], in[3])
          IN MemDone(r)
             /\ Record("givemoney", in[1], "", in[2], in[3], r)

MemTake ==
    /\ variant = "mem"
    /\ \E in \in StaffInputs :
          LET r == Mem_takemoney(economyDB, in[1], in[2], in[3])
          IN MemDone(r)
             /\ Record("takemoney", in[1], "", in[2], in[3], r)

Rooms == {"casino", "lobby"}

NoGame ==
    [active |-> FALSE, host |-> "", betAmount |-> 0, opponent |-> "",
     timer |-> 0]

NoGames == [r \in Rooms |-> NoGame]

NoEvent ==
    [op |-> "init", user |-> "", room |-> "", bet |-> NaN, hostRoll |-> 0,
     opponentRoll |-> 0, reply |-> "", game |-> 0,
     pre |-> [u \in Users |-> 0], preGames |-> NoGames, preTimers |-> {}]

DiceIdle ==
    /\ money = [u \in Users |-> 0]
    /\ activeDiceGames = NoGames
    /\ timers = {}
    /\ history = <<>>
    /\ event = NoEvent

\* A ledger file an earlier run left: "c" has an account.
OldLedger ==
    [EmptyLedger EXCEPT !["c"] = [has |-> TRUE, balance |-> 1, bank |-> 0]]

\* The ledger file is absent (read as '{}'), or is an older ledger, whole or
\* damaged so that it does not parse; the config file is absent or does not
\* parse; economyDB starts {}.
Init ==
    /\ variant \in {"bank", "flat", "mem"}
    /\ economyFile \in
          {[ok |-> TRUE, data |-> EmptyLedger],
           [ok |-> FALSE, data |-> OldLedger],
           [ok |-> TRUE, data |-> OldLedger]}
    /\ economyFile = [ok |-> TRUE, data |-> EmptyLedger] \/ variant # "mem"
    /\ (economyFile.ok /\ economyFile.data = OldLedger) => variant = "bank"
    /\ configFile \in
          {[kind |-> k, undef |-> FALSE, pct |-> 0] :
              k \in {"absent", "malformed"}}
    /\ configFile.kind = "absent" \/ variant = "bank"
    /\ economyDB = EmptyLedger
    /\ last = [op |-> "init", auth |-> FALSE, user |-> "", target |-> "",
               amount |-> NaN, pre |-> EmptyLedger, reply |-> "",
               board |-> NoBoard, parsed |-> TRUE, back |-> FALSE,
               before |-> EmptyLedger]
    /\ DiceIdle

Next ==
    \/ BankGive
    \/ BankTake
    \/ BankTransfer
    \/ BankBank
    \/ BankInterest
    \/ BankSetInterest
    \/ FlatGive
    \/ FlatTake
    \/ FlatTransfer
    \/ MemGive
    \/ MemTake

Spec == Init /\ [][Next]_vars

\* ------------------------------------------------------- ledger claims
\* The amount the last command parsed: Number() in the bank draft, parseInt
\* in the other two.
Parsed == IF variant = "bank" THEN Number(last.amount)
          ELSE parseInt(last.amount)

\* The last command named a user and an amount that is a number, and its
\* caller had the rank it asks for.
Reached == last.auth /\ last.target \in Users /\ ~isNaN(Parsed)

SameMoney(acc1, acc2) ==
    acc1.balance = acc2.balance /\ acc1.bank = acc2.bank

OthersUnchanged(S) == \A v \in Users \ S : Ledger[v] = last.pre[v]

\* C1: after any sequence of the ledger commands and of applyInterest, with
\* any positive amounts the commands accept, every balance and every bank
\* is >= 0.
LedgerNonNegative ==
    \A u \in Users : Ledger[u].balance >= 0 /\ Ledger[u].bank >= 0

\* C7, as stated: takeMoney(U, n) with n > balance(U) leaves every balance
\* unchanged and signals the failure.
TakeInsufficientNoOp ==
    (last.op = "takemoney" /\ Reached
        /\ Parsed.units > last.pre[last.target].balance)
    => /\ \A u \in Users : SameMoney(Ledger[u], last.pre[u])
       /\ last.reply \notin {"Took", "has taken"}

\* C7, amended: takeMoney(U, n) with n > 0 and n > balance(U) changes no
\* other account; the flat draft leaves the ledger as it was and replies
\* "Invalid transaction."; the bank and mem drafts leave balance(U) = 0
\* (Math.max(0, ...)) and reply "Took".
TakeInsufficientByDraft ==
    (last.op = "takemoney" /\ Reached /\ Parsed.units > 0
        /\ Parsed.units > last.pre[last.target].balance)
    => /\ OthersUnchanged({last.target})
       /\ Ledger[last.target].bank = last.pre[last.target].bank
       /\ IF variant = "flat"
          THEN /\ Ledger = last.pre
               /\ last.reply = "Invalid transaction."
          ELSE /\ Ledger[last.target].balance = 0
               /\ last.reply = "Took"

\* C7 witness: the bank draft took more than a positive balance held.
TakeInsufficientSeen ==
    /\ variant = "bank" /\ last.op = "takemoney" /\ Reached
    /\ last.pre[last.target].balance > 0
    /\ Parsed.units > last.pre[last.target].balance

\* C8: transferMoney(from, to, amount) with from = to, or amount <= 0, or a
\* sender balance below amount leaves the ledger unchanged and does not
\* report a transfer.
TransferFailureCases ==
    (last.op = "transfermoney" /\ Reached
        /\ \/ last.user = last.target
           \/ Parsed.units <= 0
           \/ last.pre[last.user].balance < Parsed.units)
    => /\ Ledger = last.pre
       /\ last.reply \notin Sent

\* C9: for distinct A and B and n > 0 with balance(A) >= n, transferMoney(A,
\* B, n) succeeds, and transferMoney(B, A, n) right after it succeeds too
\* and leaves every balance (and bank) as it was before the first.
TransferRoundTrip ==
    /\ (last.op = "transfermoney" /\ Reached /\ last.user # last.target
           /\ Parsed.units > 0
           /\ last.pre[last.user].balance >= Parsed.units)
       => last.reply \in Sent
    /\ (last.op = "transfermoney" /\ last.back /\ last.user # last.target)
       => /\ last.reply \in Sent
          /\ \A u \in Users : SameMoney(Ledger[u], last.before[u])

\* C9 witness: a transfer was sent back.
TransferRoundTripSeen ==
    /\ last.op = "transfermoney" /\ last.back /\ last.user # last.target
    /\ last.reply \in Sent
    /\ last.pre[last.target].balance # last.before[last.target].balance

\* C10: giveMoney(U, n) with n > 0 creates U's account if absent, adds n
\* to U's balance and changes no other account; with n <= 0 it is refused
\* and changes nothing.
GiveCredits ==
    (last.op = "givemoney" /\ Reached)
    => IF Parsed.units > 0
       THEN /\ Ledger[last.target].has
            /\ Ledger[last.target].balance =
                  last.pre[last.target].balance + Parsed.units
            /\ Ledger[last.target].bank = last.pre[last.target].bank
            /\ OthersUnchanged({last.target})
            /\ last.reply \in {"Gave", "has given"}
       ELSE /\ Ledger = last.pre
            /\ last.reply \in {"Usage: /givemoney", "Invalid transaction.",
                               "Invalid amount."}

\* C10 witness: a user the ledger did not know was given money.
GiveCreditsSeen ==
    /\ last.op = "givemoney" /\ Reached /\ Parsed.units > 0
    /\ ~last.pre[last.target].has
    /\ Ledger[last.target].balance = Parsed.units

\* ------------------------------------------------- the dice plugin (part_003)
CASINO_ROOM == "casino"

\* Math.floor(Math.random() * 6) + 1
DieFaces == 6
Rolls == 1 .. DieFaces

\* Economy.readMoney and Economy.writeMoney are not in the sources: the
\* balance of a user, and adding a (signed) amount to it.
Economy_readMoney(userid) == money[userid]
Economy_writeMoney(m, userid, amount) == [m EXCEPT ![userid] = @ + amount]

Observe(op, room, user, target, hostRoll, opponentRoll, game, reply) ==
    event' = [op |-> op, user |-> user, room |-> room, bet |-> target,
              hostRoll |-> hostRoll, opponentRoll |-> opponentRoll,
              reply |-> reply, game |-> game, pre |-> money,
              preGames |-> activeDiceGames, preTimers |-> timers]

\* this.errorReply(...): the command returns having changed nothing.
errorReply_cancels(op, room, user, target, reply) ==
    /\ Observe(op, room, user, target, 0, 0, 0, reply)
    /\ timers' = {}
    /\ UNCHANGED <<money, activeDiceGames, history>>
errorReply(op, room, user, target, reply) ==
    /\ Observe(op, room, user, target, 0, 0, 0, reply)
    /\ UNCHANGED <<money, activeDiceGames, timers, history>>

\* if (activeDiceGames[room.roomid]) return this.errorReply(...)
alreadyActive_never(room) == FALSE
alreadyActive(room) == activeDiceGames[room].active

\* if (game.timer) clearTimeout(game.timer): the timers left pending.
clearTimeout_forgotten(timer) == timers
clearTimeout(timer) == {tm \in timers : tm.id # timer}

\* delete activeDiceGames[room.roomid]
deleteGame_forgotten(room) == activeDiceGames
deleteGame(room) == [activeDiceGames EXCEPT ![room] = NoGame]

\* The payout of join: the higher roll takes both stakes, a tie returns
\* each stake.
payout_oneStake(m, host, userid, betAmount, hostRoll, opponentRoll) ==
    IF hostRoll > opponentRoll
    THEN Economy_writeMoney(m, host, betAmount)
    ELSE IF hostRoll < opponentRoll
    THEN Economy_writeMoney(m, userid, betAmount)
    ELSE Economy_writeMoney(Economy_writeMoney(m, host, betAmount),
                            userid, betAmount)
payout_hostOnTie(m, host, userid, betAmount, hostRoll, opponentRoll) ==
    IF hostRoll >= opponentRoll
    THEN Economy_writeMoney(m, host, betAmount * 2)
    ELSE Economy_writeMoney(m, userid, betAmount * 2)
payout(m, host, userid, betAmount, hostRoll, opponentRoll) ==
    IF hostRoll > opponentRoll
    THEN Economy_writeMoney(m, host, betAmount * 2)
    ELSE IF hostRoll < opponentRoll
    THEN Economy_writeMoney(m, userid, betAmount * 2)
    ELSE Economy_writeMoney(Economy_writeMoney(m, host, betAmount),
                            userid, betAmount)

\* isNaN(betAmount) || betAmount < 1
invalidBet_notPositive(betAmount) ==
    isNaN(betAmount) \/ betAmount.units <= 0
invalidBet(betAmount) == isNaN(betAmount) \/ betAmount.units < Scale

\* commands.dice.start; the timer it arms is named by the game's number.
dice_start(room, user, target) ==
    LET betAmount == Number(target)
        id == Len(history) + 1
    IN IF room # CASINO_ROOM
       THEN errorReply("start", room, user, target, "casino room only")
       ELSE IF alreadyActive(room)
       THEN errorReply("start", room, user, target, "already active")
       ELSE IF invalidBet(betAmount)
       THEN errorReply("start", room, user, target, "valid bet amount")
       ELSE IF Economy_readMoney(user) < betAmount.units
       THEN errorReply("start", room, user, target, "not enough")
       ELSE /\ money' = Economy_writeMoney(money, user, 0 - betAmount.units)
            /\ activeDiceGames' =
                  [activeDiceGames EXCEPT ![room] =
                      [active |-> TRUE, host |-> user,
                       betAmount |-> betAmount.units, opponent |-> "",
                       timer |-> id]]
            /\ timers' = timers \cup
                  {[id |-> id, room |-> room, user |-> user,
                    betAmount |-> betAmount.units]}
            /\ history' = Append(history,
                  [room |-> room, host |-> user,
                   betAmount |-> betAmount.units, base |-> money,
                   applied |-> <<>>])
            /\ Observe("start", room, user, target, 0, 0, id, "started")

\* The setTimeout callback of start, 60 seconds later: tm is its closure.
dice_timeout(tm) ==
    /\ timers' = timers \ {tm}
    /\ IF activeDiceGames[tm.room].active
       THEN /\ money' = Economy_writeMoney(money, tm.user, tm.betAmount)
            /\ activeDiceGames' = deleteGame(tm.room)
            /\ history' = [history EXCEPT ![tm.id].applied =
                              Append(@, "timeout refund")]
            /\ Observe("timeout", tm.room, tm.user, Num(tm.betAmount), 0, 0,
                       tm.id, "cancelled")
       ELSE /\ UNCHANGED <<money, activeDiceGames, history>>
            /\ Observe("timeout", tm.room, tm.user, Num(tm.betAmount), 0, 0,
                       tm.id, "nothing")

\* commands.dice.join; hostRoll and opponentRoll are the two draws, made
\* once the join is accepted.
dice_join(room, user) ==
    LET game == activeDiceGames[room]
    IN IF room # CASINO_ROOM
       THEN errorReply("join", room, user, NaN, "casino room only")
       ELSE IF ~game.active
       THEN errorReply("join", room, user, NaN, "no active game")
       ELSE IF game.opponent # ""
       THEN errorReply("join", room, user, NaN, "already two players")
       ELSE IF user = game.host
       THEN errorReply("join", room, user, NaN, "your own game")
       ELSE IF Economy_readMoney(user) < game.betAmount
       THEN errorReply("join", room, user, NaN, "not enough")
       ELSE \E hostRoll \in Rolls, opponentRoll \in Rolls :
               LET m1 == Economy_writeMoney(money, user, 0 - game.betAmount)
               IN /\ timers' = clearTimeout(game.timer)
                  /\ money' = payout(m1, game.host, user, game.betAmount,
                                     hostRoll, opponentRoll)
                  /\ history' = [history EXCEPT ![game.timer].applied =
                                    Append(@, IF hostRoll = opponentRoll
                                              THEN "tie refund"
                                              ELSE "winner payout")]
                  /\ activeDiceGames' = deleteGame(room)
                  /\ Observe("join", room, user, NaN, hostRoll,
                             opponentRoll, game.timer, "resolved")

\* What /dice start is typed with: outside the casino room the amount is
\* not read.
StartInputs ==
    {<<r, NaN>> : r \in Rooms \ {CASINO_ROOM}} \cup ({CASINO_ROOM} \X Typed)

DiceStart ==
    /\ variant = "dice"
    /\ Len(history) < MaxGames
    /\ \E user \in Users, in \in StartInputs : dice_start(in[1], user, in[2])
    /\ UNCHANGED ledgerVars

DiceJoin ==
    /\ variant = "dice"
    /\ \E room \in Rooms, user \in Users : dice_join(room, user)
    /\ UNCHANGED ledgerVars

DiceTimeout ==
    /\ variant = "dice"
    /\ \E tm \in timers : dice_timeout(tm)
    /\ UNCHANGED ledgerVars

\* The plugin is loaded: no game, no timer; each user holds nothing or
\* MaxWallet units.
InitDice ==
    /\ variant = "dice"
    /\ economyFile = [ok |-> TRUE, data |-> EmptyLedger]
    /\ configFile = [kind |-> "absent", undef |-> FALSE, pct |-> 0]
    /\ economyDB = EmptyLedger
    /\ last = [op |-> "init", auth |-> FALSE, user |-> "", target |-> "",
               amount |-> NaN, pre |-> EmptyLedger, reply |-> "",
               board |-> NoBoard, parsed |-> TRUE, back |-> FALSE,
               before |-> EmptyLedger]
    /\ money \in [Users -> {0, MaxWallet}]
    /\ activeDiceGames = NoGames
    /\ timers = {}
    /\ history = <<>>
    /\ event = NoEvent

NextDice ==
    \/ DiceStart
    \/ DiceJoin
    \/ DiceTimeout

SpecDice == InitDice /\ [][NextDice]_vars

\* setTimeout(..., 60000): a pending callback is run after its delay, unless
\* clearTimeout removed it first.
SpecDiceFair == SpecDice /\ WF_vars(DiceTimeout)

\* --------------------------------------------------------- dice claims
RECURSIVE SumMoney(_, _)
SumMoney(m, S) ==
    IF S = {} THEN 0
    ELSE LET u == CHOOSE x \in S : TRUE IN m[u] + SumMoney(m, S \ {u})

RECURSIVE SumEscrow(_)
SumEscrow(R) ==
    IF R = {} THEN 0
    ELSE LET r == CHOOSE x \in R : TRUE
         IN (IF activeDiceGames[r].active THEN activeDiceGames[r].betAmount
             ELSE 0) + SumEscrow(R \ {r})

Games == 1 .. Len(history)

\* Game id is the one its room holds now.
Awaiting(id) ==
    /\ activeDiceGames[history[id].room].active
    /\ activeDiceGames[history[id].room].timer = id

\* C2: every game created by a successful /dice start has no outcome
\* applied while it awaits an opponent, and exactly one of winner payout,
\* tie refund and timeout refund once it has ended.
DiceSingleOutcome ==
    \A id \in Games :
        IF Awaiting(id) THEN history[id].applied = <<>>
        ELSE Len(history[id].applied) = 1

\* C2 witness: one game was cancelled by its timer and another was resolved
\* by a join.
DiceSingleOutcomeSeen ==
    \E i, j \in Games :
        /\ history[i].applied = <<"timeout refund">>
        /\ history[j].applied # <<"timeout refund">>
        /\ history[j].applied # <<>>

\* C3: the players' balances plus the stake the active game holds add up to
\* what the balances added up to before the first game.
DiceConservation ==
    Len(history) > 0
    => SumMoney(money, Users) + SumEscrow(Rooms)
          = SumMoney(history[1].base, Users)

\* C3 witness: a join paid a winner and no game is active.
DiceConservationSeen ==
    /\ event.op = "join" /\ event.reply = "resolved"
    /\ event.hostRoll # event.opponentRoll
    /\ \A r \in Rooms : ~activeDiceGames[r].active
    /\ money # history[1].base

\* C4: a successful /dice start with bet b debits the host by exactly b,
\* leaves the room awaiting an opponent with the game's timer armed; when
\* the timer of a game no join has resolved fires, the host's balance is
\* what it was before the start and the room has no game.
DiceTimeoutRefund ==
    /\ (event.op = "start" /\ event.reply = "started")
       => /\ money = [event.pre EXCEPT ![event.user] = @ - event.bet.units]
          /\ activeDiceGames[event.room].active
          /\ activeDiceGames[event.room].host = event.user
          /\ activeDiceGames[event.room].betAmount = event.bet.units
          /\ \E tm \in timers : tm.id = activeDiceGames[event.room].timer
    /\ (event.op = "timeout"
           /\ \A k \in 1 .. Len(history[event.game].applied) :
                 history[event.game].applied[k] = "timeout refund")
       => /\ event.reply = "cancelled"
          /\ money[history[event.game].host]
                = history[event.game].base[history[event.game].host]
          /\ ~activeDiceGames[event.room].active

\* C4 witness: a timer fired on the game it was armed for.
DiceTimeoutRefundSeen ==
    /\ event.op = "timeout" /\ event.reply = "cancelled"
    /\ event.pre[event.user] < money[event.user]

\* C5: after a successful join by O to H's game with bet b and rolls (h, o),
\* relative to the balances before the game started: h > o leaves H at +b
\* and O at -b, h < o leaves O at +b and H at -b, h = o leaves both at 0;
\* and the room has no game.
DicePayoutByRolls ==
    (event.op = "join" /\ event.reply = "resolved")
    => LET g == history[event.game]
           H == g.host
           O == event.user
           b == g.betAmount
           net(u) == money[u] - g.base[u]
       IN /\ event.hostRoll > event.opponentRoll
             => net(H) = b /\ net(O) = 0 - b
          /\ event.hostRoll < event.opponentRoll
             => net(O) = b /\ net(H) = 0 - b
          /\ event.hostRoll = event.opponentRoll
             => net(H) = 0 /\ net(O) = 0
          /\ ~activeDiceGames[event.room].active

\* C5 witness: the host rolled 6 and the opponent 2.
DicePayoutByRollsSeen ==
    /\ event.op = "join" /\ event.reply = "resolved"
    /\ event.hostRoll = 6 /\ event.opponentRoll = 2

\* C6: a room never has two games that have not ended, and a /dice start
\* while the room has a game is refused: no balance, game or timer changes.
DiceOneGamePerRoom ==
    /\ \A r \in Rooms :
          Cardinality({id \in Games : history[id].room = r
                                      /\ history[id].applied = <<>>}) <= 1
    /\ (event.op = "start" /\ event.preGames[event.room].active)
       => /\ event.reply = "already active"
          /\ money = event.pre
          /\ activeDiceGames = event.preGames
          /\ timers = event.preTimers

\* C6 witness: a start was refused because the room had a game.
DiceOneGamePerRoomSeen ==
    /\ event.op = "start" /\ event.reply = "already active"
    /\ event.bet.units >= Scale /\ event.pre[event.user] >= event.bet.units

\* ------------------------------- the bank draft's functions, called once
\* Bank sub-balances, in units: none, less than a coin, a coin and a part,
\* 50 coins (2% is one coin), a part more, MaxBank coins.
BigBanks == {0, 1, Scale + 1, Scale * 50, Scale * 50 + 1, Scale * MaxBank}

\* The accounts the ledger file holds when a function is called.  A bank
\* below zero is what a negative interest rate leaves.
AccountsA ==
    {NoAccount} \cup
    {[has |-> TRUE, balance |-> bl, bank |-> bk] :
        bl \in {0, Scale}, bk \in BigBanks}
AccountsB ==
    {NoAccount,
     [has |-> TRUE, balance |-> 0, bank |-> 0],
     [has |-> TRUE, balance |-> Scale, bank |-> 0],
     [has |-> TRUE, balance |-> 0, bank |-> 0 - 1],
     [has |-> TRUE, balance |-> 0, bank |-> Scale * MaxBank]}
AccountsC ==
    {NoAccount,
     [has |-> TRUE, balance |-> Scale, bank |-> 0],
     [has |-> TRUE, balance |-> 0, bank |-> Scale + 1]}

BigLedgers ==
    {[u \in Users |-> IF u = "a" THEN x ELSE IF u = "b" THEN y ELSE z] :
        x \in AccountsA, y \in AccountsB, z \in AccountsC}

\* The amounts withdrawBank is called with.
BigTyped == Typed \cup {Num(k) : k \in BigBanks}

\* The config file: absent, not parsing, or a rate of 5% or 100% set by
\* /setinterest.
BigConfigs ==
    {[kind |-> "absent", undef |-> FALSE, pct |-> 0],
     [kind |-> "malformed", undef |-> FALSE, pct |-> 0],
     [kind |-> "ok", undef |-> FALSE, pct |-> 5],
     [kind |-> "ok", undef |-> FALSE, pct |-> 100]}

InitBank ==
    /\ variant = "bank"
    /\ economyFile \in {[ok |-> TRUE, data |-> l] : l \in BigLedgers}
    /\ configFile \in BigConfigs
    /\ economyDB = EmptyLedger
    /\ last = [op |-> "init", auth |-> FALSE, user |-> "", target |-> "",
               amount |-> NaN, pre |-> EmptyLedger, reply |-> "",
               board |-> NoBoard, parsed |-> TRUE, back |-> FALSE,
               before |-> EmptyLedger]
    /\ DiceIdle

\* One call ends: what it saved is in the file.
CallDone(r) ==
    /\ Persist(r)
    /\ UNCHANGED <<variant, configFile, economyDB, diceVars>>

\* withdrawBank(user, amount)
CallWithdraw ==
    /\ last.op = "init"
    /\ \E user \in Users, amount \in BigTyped :
          LET r == Bank_withdrawBank(loadEconomy, user, amount)
          IN CallDone(r)
             /\ Record("withdrawBank", TRUE, user, "", amount, r)

\* The rate applyInterest read, in hundredths; NaN: interestRate undefined.
RateRead ==
    IF loadEconomyConfig.undef THEN NaN ELSE Num(loadEconomyConfig.pct)

\* applyInterest()
CallInterest ==
    /\ last.op = "init"
    /\ LET r == Bank_applyInterest(loadEconomy, loadEconomyConfig)
       IN CallDone(r) /\ Record("applyInterest", TRUE, "", "", RateRead, r)

\* getRichestUsers(start, end), 1 <= start: nothing is saved.
CallRichest ==
    /\ last.op = "init"
    /\ \E entries \in Entries(loadEconomy), start \in 1 .. MaxRank,
          end \in 0 .. MaxRank :
          LET r == getRichestUsers(loadEconomy, entries, start, end)
          IN last' = [Recorded("getRichestUsers", TRUE, "", "", NaN, r)
                         EXCEPT !.board = r.board]
    /\ UNCHANGED <<variant, economyFile, configFile, economyDB, diceVars>>

NextBank ==
    \/ CallWithdraw
    \/ CallInterest
    \/ CallRichest

SpecBank == InitBank /\ [][NextBank]_vars

\* ----------------------------------------------- bank function claims
\* The least whole number of coins that is at least 2% of n units.
CeilTwoPercent(n) ==
    CHOOSE k \in 0 .. n + 1 :
        /\ 100 * Scale * k >= 2 * n
        /\ 100 * Scale * (k - 1) < 2 * n

\* C11: withdrawBank(U, amount) with 0 < amount <= bank(U) takes amount
\* from bank(U) and adds amount - ceil(amount * 0.02) to balance(U), so
\* balance + bank of U drops by the fee ceil(amount * 0.02); with
\* amount <= 0 or amount > bank(U) it fails and the ledger in the file is
\* as it was.
WithdrawFee ==
    (last.op = "withdrawBank" /\ ~isNaN(last.amount))
    => LET n == last.amount.units
           was == last.pre[last.user]
           now == Ledger[last.user]
           fee == Scale * CeilTwoPercent(n)
       IN IF n > 0 /\ n <= was.bank
          THEN /\ now.has
               /\ now.bank = was.bank - n
               /\ now.balance = was.balance + (n - fee)
               /\ now.balance + now.bank = was.balance + was.bank - fee
               /\ OthersUnchanged({last.user})
               /\ last.reply = "You withdrew"
          ELSE /\ Ledger = last.pre
               /\ last.reply = "Invalid withdrawal amount."

\* C11 witness: 50 coins and a part were withdrawn for a fee of 2 coins.
WithdrawFeeSeen ==
    /\ last.op = "withdrawBank" /\ last.reply = "You withdrew"
    /\ last.amount = Num(Scale * 50 + 1)
    /\ Ledger[last.user].balance =
          last.pre[last.user].balance + Scale * 50 + 1 - 2 * Scale

\* The whole number of coins in pct hundredths of bank units, bank > 0 and
\* 0 <= pct <= 100.
FloorOfRate(bank, pct) ==
    CHOOSE k \in 0 .. bank :
        /\ 100 * Scale * k <= bank * pct
        /\ 100 * Scale * (k + 1) > bank * pct

\* C12: one call of applyInterest() with the configured rate r replaces
\* bank(U) by bank(U) + floor(bank(U) * r) for every account with
\* bank(U) > 0, and leaves every account with bank(U) <= 0 and every
\* balance as it was.
InterestAdded ==
    (last.op = "applyInterest" /\ ~isNaN(last.amount))
    => \A u \in Users :
          LET was == last.pre[u]
              now == Ledger[u]
          IN /\ now.has = was.has
             /\ now.balance = was.balance
             /\ now.bank =
                   IF was.has /\ was.bank > 0
                   THEN was.bank
                        + Scale * FloorOfRate(was.bank, last.amount.units)
                   ELSE was.bank

\* C12 witness: at 5% a bank of MaxBank coins grew by 5 coins, next to an
\* account whose bank is not positive.
InterestAddedSeen ==
    /\ last.op = "applyInterest" /\ last.amount = Num(5)
    /\ \E u \in Users :
          /\ last.pre[u].bank = Scale * MaxBank
          /\ Ledger[u].bank = Scale * MaxBank + Scale * 5
    /\ \E u \in Users : last.pre[u].has /\ last.pre[u].bank <= 0

\* The accounts the last command loaded.
Held == {u \in Users : last.pre[u].has}

\* C13: for 1 <= start <= end, getRichestUsers(start, end) lists at most
\* end - start + 1 accounts, exactly those at the positions start .. end of
\* the ledger ordered by descending balance + bank, each total >= the
\* next, the i-th labelled start + i - 1, and it does not change the ledger.
RichestRanking ==
    (last.op = "getRichestUsers" /\ 1 <= last.board.start
        /\ last.board.start <= last.board.end)
    => LET rows == last.board.rows
           start == last.board.start
           end == last.board.end
           upto == IF end < Cardinality(Held) THEN end ELSE Cardinality(Held)
       IN /\ Len(rows) <= end - start + 1
          /\ Len(rows) = Max0(upto - start + 1)
          /\ \A i \in 1 .. Len(rows) :
                /\ rows[i].rank = start + i - 1
                /\ rows[i].user \in Held
                /\ rows[i].total = Total(last.pre, rows[i].user)
                /\ \A j \in 1 .. Len(rows) :
                      /\ i < j => rows[i].total >= rows[j].total
                      /\ i # j => rows[i].user # rows[j].user
                /\ Cardinality({v \in Held :
                       Total(last.pre, v) > rows[i].total}) < rows[i].rank
                /\ Cardinality({v \in Held :
                       Total(last.pre, v) >= rows[i].total}) >= rows[i].rank
          /\ Ledger = last.pre
          /\ economyFile.ok

\* C13 witness: the ranks 2 and 3 of three accounts with different totals
\* were listed.
RichestRankingSeen ==
    /\ last.op = "getRichestUsers"
    /\ last.board.start = 2 /\ last.board.end = MaxRank
    /\ Len(last.board.rows) = 2
    /\ last.board.rows[1].total > last.board.rows[2].total
    /\ \E v \in Held : Total(last.pre, v) > last.board.rows[1].total

\* -------------------------------------------- dice claims: rejections
\* The last event is a /dice start typed in the casino room while it had
\* no game.
StartFromIdle ==
    /\ event.op = "start" /\ event.room = CASINO_ROOM
    /\ ~event.preGames[CASINO_ROOM].active

\* The last event left the balances, the games and the timers as they were.
DiceNoOp ==
    /\ money = event.pre
    /\ activeDiceGames = event.preGames
    /\ timers = event.preTimers

\* C14, as stated: a /dice start from Idle whose bet is not a positive
\* number or whose host has balance < bet is rejected and changes no
\* balance, leaves the room idle and arms no timer; every start from Idle
\* with a positive bet and host balance >= bet is accepted.
StartRejectedNoOp ==
    StartFromIdle
    => IF \/ isNaN(event.bet) \/ event.bet.units <= 0
          \/ event.pre[event.user] < event.bet.units
       THEN event.reply # "started" /\ DiceNoOp
       ELSE event.reply = "started"

\* C14, amended: the bet must be a number >= 1; a /dice start from Idle
\* whose bet is not a number or is below 1, or whose host has
\* balance < bet, is rejected and changes no balance, leaves the room idle
\* and arms no timer; every start from Idle with a bet >= 1 and host
\* balance >= bet is accepted.
StartRejectedBelowOne ==
    StartFromIdle
    => IF \/ isNaN(event.bet) \/ event.bet.units < Scale
          \/ event.pre[event.user] < event.bet.units
       THEN /\ event.reply \in {"valid bet amount", "not enough"}
            /\ DiceNoOp
            /\ ~activeDiceGames[CASINO_ROOM].active
       ELSE /\ event.reply = "started"
            /\ activeDiceGames[CASINO_ROOM].active
            /\ activeDiceGames[CASINO_ROOM].host = event.user
            /\ money[event.user] = event.pre[event.user] - event.bet.units

\* C14 witness: a host who holds the bet typed a positive bet below 1 and
\* was refused.
StartRejectedSeen ==
    /\ StartFromIdle
    /\ event.bet.units > 0 /\ event.bet.units < Scale
    /\ event.pre[event.user] >= event.bet.units
    /\ event.reply = "valid bet amount"

\* The timer the start of the casino room's game armed is pending.
TimerArmed ==
    \E tm \in timers :
        /\ tm.id = activeDiceGames[CASINO_ROOM].timer
        /\ tm.room = CASINO_ROOM
        /\ tm.user = activeDiceGames[CASINO_ROOM].host
        /\ tm.betAmount = activeDiceGames[CASINO_ROOM].betAmount

\* C15: a /dice join when no game is active, by the game's own host, or by
\* a user whose balance is below betAmount is rejected: no balance changes,
\* the game (host, bet, no opponent) stays as it was, and the host's
\* cancellation timer stays armed.
JoinRejectedNoOp ==
    (/\ event.op = "join" /\ event.room = CASINO_ROOM
     /\ \/ ~event.preGames[CASINO_ROOM].active
        \/ event.user = event.preGames[CASINO_ROOM].host
        \/ event.pre[event.user] < event.preGames[CASINO_ROOM].betAmount)
    => /\ event.reply \in {"no active game", "your own game", "not enough"}
       /\ DiceNoOp
       /\ event.preGames[CASINO_ROOM].active
          => /\ activeDiceGames[CASINO_ROOM].opponent = ""
             /\ TimerArmed

\* C15 witness: a user who does not hold the bet tried to join a game.
JoinRejectedSeen ==
    /\ event.op = "join" /\ event.reply = "not enough"
    /\ event.preGames[CASINO_ROOM].active
    /\ event.user # event.preGames[CASINO_ROOM].host
    /\ TimerArmed

\* ---------------------------------------------- dice claims: lifecycle
\* C16: with pending timers eventually firing, a room that has a game
\* awaiting an opponent eventually has no game: the game record is deleted
\* by the join that resolves it or by the timeout that cancels it.
DiceGameEnds ==
    \A r \in Rooms :
        activeDiceGames[r].active ~> ~activeDiceGames[r].active

\* C16 witness: MaxGames games were started and each has ended, one of them
\* by its timer.
DiceGameEndsSeen ==
    /\ Len(history) = MaxGames
    /\ \A r \in Rooms : ~activeDiceGames[r].active
    /\ \A id \in Games : history[id].applied # <<>>
    /\ \E id \in Games : history[id].applied = <<"timeout refund">>

\* ------------------------------------------ ledger claims: persistence
\* What the command or callback recorded in l computes from the ledger e.
Replay(l, e) ==
    IF l.op = "givemoney"
    THEN IF variant = "bank"
         THEN Bank_givemoney(e, l.auth, l.target, l.amount)
         ELSE IF variant = "flat"
         THEN Flat_givemoney(e, l.auth, l.target, l.amount)
         ELSE Mem_givemoney(e, l.auth, l.target, l.amount)
    ELSE IF l.op = "takemoney"
    THEN IF variant = "bank"
         THEN Bank_takemoney(e, l.auth, l.target, l.amount)
         ELSE IF variant = "flat"
         THEN Flat_takemoney(e, l.auth, l.target, l.amount)
         ELSE Mem_takemoney(e, l.auth, l.target, l.amount)
    ELSE IF l.op = "transfermoney"
    THEN IF variant = "bank"
         THEN Bank_transfermoney(e, l.user, l.target, l.amount)
         ELSE Flat_transfermoney(e, l.user, l.target, l.amount)
    ELSE IF l.op = "bank" THEN Bank_bank(e, l.user, l.target, l.amount)
    ELSE IF l.op = "applyInterest"
    THEN Bank_applyInterest(e, loadEconomyConfig)
    ELSE NotSaved(e, l.reply)

\* The ledger Replay leaves.
Replayed(l, e) == IF Replay(l, e).save THEN Replay(l, e).data ELSE e

MalformedIsEmpty ==
    /\ ~economyFile.ok
       => /\ \A u \in Users :
                /\ Bank_getBalance(loadEconomy, u) = 0
                /\ Flat_getBalance(loadEconomy, u) = 0
          /\ \A entries \in Entries(loadEconomy) :
                /\ Flat_getRichestUsers(loadEconomy, entries) = <<>>
                /\ \A start \in 1 .. MaxRank :
                      getRichestUsers(loadEconomy, entries, start,
                                      MaxRank).ret
                         = "No users found in this range."
    /\ ~last.parsed
       => /\ last.pre = EmptyLedger
          /\ economyFile.ok
             => \A u \in Users :
                   Ledger[u].has => u \in {last.user, last.target}

\* C18 witness: a give that loaded a damaged document persisted a ledger of
\* its target alone: the account the document held is gone.
MalformedIsEmptySeen ==
    /\ ~last.parsed /\ economyFile.ok
    /\ last.reply \in {"Gave", "has given"}
    /\ Ledger[last.target].has
    /\ ~Ledger["c"].has

\* C19: a cancellation timer is pending exactly while its room has a game
\* awaiting an opponent, and it is the timer that game's start armed; a
\* timer that fires finds the game it was armed for, never a later one.
NoStaleTimer ==
    /\ \A tm \in timers :
          /\ activeDiceGames[tm.room].active
          /\ activeDiceGames[tm.room].timer = tm.id
          /\ activeDiceGames[tm.room].host = tm.user
          /\ activeDiceGames[tm.room].opponent = ""
    /\ \A r \in Rooms :
          activeDiceGames[r].active
          => \E tm \in timers :
                tm.room = r /\ tm.id = activeDiceGames[r].timer
    /\ event.op = "timeout"
       => /\ event.reply = "cancelled"
          /\ event.preGames[event.room].active
          /\ event.preGames[event.room].timer = event.game

\* C19 witness: a join resolved the first game, and the second game of the
\* room awaits an opponent with its own timer the only one pending.
NoStaleTimerSeen ==
    /\ Len(history) = 2
    /\ history[1].room = history[2].room
    /\ history[1].applied \in {<<"winner payout">>, <<"tie refund">>}
    /\ Awaiting(2)
    /\ \A tm \in timers : tm.id = 2
    /\ timers # {}

====
